---- MODULE Spec2Model ----
(***************************************************************************)
(* The managed bridge of the global notifier                               *)
(* (wrappers/src/global_notifier_cs.cpp): the Callback object that the     *)
(* engine's GlobalNotifier drives, the four process-wide callback          *)
(* pointers, and the exported create / destroy / get_changes /             *)
(* notification_destroy entry points.                                      *)
(*                                                                         *)
(* GlobalNotifier itself (<server/global_notifier.hpp>) is not part of     *)
(* the wrapper source.  Its side (which events it raises, its ready        *)
(* queue, the snapshots a ChangeNotification holds) is modelled from the   *)
(* specification and kept in the definitions whose names start with        *)
(* Engine, plus next_changed_realm, get_old_realm and get_new_realm.       *)
(***************************************************************************)
EXTENDS Integers, Sequences, FiniteSets, TLC

\* ------------------------------------------------------------------ bounds
\* positions are added to an IndexSet MaxAdds times, each below MaxIndex
MaxAdds == 4
MaxIndex == 8
\* engine events (download_complete, reported error, store discovery,
\* commit), compute-and-deliver requests, failed creates and destroys,
\* over all notifiers
MaxEvents == 5
\* a collection of a snapshot holds at most MaxRows rows
MaxRows == 3

\* ------------------------------------------------------------ input domains
Notifiers == {"n1", "n2"}
\* the managed_instance tokens a caller may pass to create
Tokens == {"t1", "t2"}
\* logical (virtual) paths of the stores the engine may report
Stores == {"/a", "/b"}
\* error codes a std::system_error may hold (0 is a legal std::error_code)
ErrorCodes == {0, 111}
\* what the exception_ptr given to Callback::error holds: a
\* std::system_error, another std::exception, or an object of a type that
\* does not derive from std::exception
Errors == [kind : {"system_error"}, code : ErrorCodes]
            \cup {[kind |-> "exception", code |-> 0],
                  [kind |-> "foreign", code |-> 0]}

\* the collections a snapshot may hold, and a collection that is not there
Collections == {"Cat", "Dog"}
Absent == [there |-> FALSE, rows |-> <<>>]
\* a collection that is there, with its rows
Table(rows) == [there |-> TRUE, rows |-> rows]
\* which call of a compute-and-deliver request throws for this store's
\* snapshots
Faults == {"none", "get_changes", "get_old_realm", "get_new_realm"}
\* healthy snapshots without any collection
NoTables ==
    [previous |-> [c \in Collections |-> Absent],
     current |-> [c \in Collections |-> Absent],
     fault |-> "none"]

NoToken == "null"
None == [realm_path |-> "", old |-> 0, new |-> 0]
NullHandle == 0
Running == "running"

\* the engine's internal identifier of a store, the first argument of
\* realm_available; the wrapper ignores it
RealmId(path) == "id:" \o path

VARIABLES
    s_callbacks,        \* the four global callback pointers: "null" or "installed"
    terminated,         \* Running, or the message realm::util::terminate ended with
    handle,             \* per notifier: what the caller holds of NotifierHandle*
    m_managed_instance, \* Callback::m_managed_instance
    m_did_download,     \* Callback::m_did_download
    started,            \* engine: GlobalNotifier is listening
    avail,              \* engine: per store "unknown" | "admitted" | "rejected"
    version,            \* engine: latest committed version of each store
    observed,           \* engine: latest version a notification was made for
    work_queue,         \* engine: FIFO of ready ChangeNotifications
    rc_pc,              \* position inside Callback::realm_changed: "idle" | "loop"
    notifications,      \* heap of new'ed ChangeNotification objects, by handle
    realms,             \* heap of new'ed SharedRealm objects, by handle
    startLog,           \* per notifier: invocations of s_start_callback
    admitLog,           \* per notifier: invocations of s_should_handle_callback
    enqLog,             \* per notifier: invocations of s_enqueue_calculation_callback
    completeLog,        \* invocations of s_calculation_complete_callback
    errorResults,       \* error results (ex) returned by get_changes calls
    snapshots,          \* environment: what the snapshots of a store hold
    unhandledRaised,    \* engine raised an error of no system_error type
                        \* before the first download completed
    positions,          \* the positions added to an IndexSet, in order
    indexes,            \* that IndexSet: ascending disjoint ranges [b, e)
    flat,               \* the MarshallableIndexSet made of it
    signal              \* engine: a realm_changed signal is pending; raised
                        \* signals coalesce

vars == <<s_callbacks, terminated, handle, m_managed_instance, m_did_download,
          started, avail, version, observed, work_queue, rc_pc, notifications,
          realms, startLog, admitLog, enqLog, completeLog, errorResults,
          snapshots, unhandledRaised, positions, indexes, flat, signal>>

callbackVars == <<m_did_download, startLog, admitLog, enqLog, terminated>>
engineVars == <<started, avail, version, observed, work_queue, rc_pc>>
heapVars == <<notifications, realms, completeLog>>
callerVars == <<s_callbacks, handle, m_managed_instance>>
requestVars == <<snapshots, errorResults>>
flattenVars == <<positions, indexes, flat>>
auxVars == <<unhandledRaised, snapshots, errorResults, flattenVars, signal>>

\* ----------------------------------------------------------------- helpers
RECURSIVE SumOver(_, _)
SumOver(f, S) ==
    IF S = {} THEN 0
    ELSE LET x == CHOOSE y \in S : TRUE IN f[x] + SumOver(f, S \ {x})

TotalLifecycle == SumOver([n \in Notifiers |-> Len(startLog[n])], Notifiers)
TotalCommits ==
    SumOver([n \in Notifiers |-> SumOver(version[n], Stores)], Notifiers)

TotalAdmissions == SumOver([n \in Notifiers |-> Len(admitLog[n])], Notifiers)
Events ==
    TotalLifecycle + TotalAdmissions + TotalCommits + Len(completeLog)
        + Len(errorResults)
        + Cardinality({n \in Notifiers : handle[n] \in {"error", "destroyed"}})

Count(log, P(_)) == Cardinality({i \in 1..Len(log) : P(log[i])})

\* ------------------------------------------------- snapshot contents
\* row identities, in the order the rows of a previous snapshot are named
IdOrder == <<"A", "B", "C", "D">>

\* a content hash of a row
Contents == {1, 2}

Rows == [id : {IdOrder[p] : p \in 1..Len(IdOrder)}, content : Contents]

\* the collections a previous snapshot may hold: the rows are named in
\* IdOrder and have the first content (a diff depends on the equality of
\* identities and contents only)
PreviousTables ==
    {Absent} \cup
        {Table([p \in 1..k |-> [id |-> IdOrder[p], content |-> 1]]) :
             k \in {j \in 0..MaxRows : j <= Len(IdOrder)}}

\* the collections a current snapshot may hold: rows of distinct
\* identities in any order
CurrentTables ==
    {Absent} \cup
        UNION {{Table(rows) : rows \in {r \in [1..k -> Rows] :
                   \A p, q \in 1..k : p # q => r[p].id # r[q].id}} :
               k \in 0..MaxRows}

\* the second collection: not there, created, deleted, one row modified
CatTables ==
    {<<Absent, Absent>>,
     <<Absent, Table(<<[id |-> "D", content |-> 1]>>)>>,
     <<Table(<<[id |-> "A", content |-> 1]>>), Absent>>,
     <<Table(<<[id |-> "A", content |-> 1]>>),
       Table(<<[id |-> "A", content |-> 2]>>)>>}

\* snapshots of which a call of the request throws
FaultySnapshots ==
    {[previous |-> [c \in Collections |-> IF c = "Dog"
                        THEN Table(<<[id |-> "A", content |-> 1]>>)
                        ELSE Absent],
      current |-> [c \in Collections |-> IF c = "Dog"
                        THEN Table(<<[id |-> "B", content |-> 1]>>)
                        ELSE Absent],
      fault |-> f] : f \in Faults \ {"none"}}

\* healthy snapshots
HealthySnapshots ==
    {[previous |-> [c \in Collections |-> IF c = "Dog" THEN dp ELSE cat[1]],
      current |-> [c \in Collections |-> IF c = "Dog" THEN dc ELSE cat[2]],
      fault |-> "none"] :
        dp \in PreviousTables, dc \in CurrentTables, cat \in CatTables}

\* ------------------------------------------------------------------- Init
BridgeInit ==
    /\ s_callbacks = "null"
    /\ terminated = Running
    /\ handle = [n \in Notifiers |-> "none"]
    /\ m_managed_instance = [n \in Notifiers |-> NoToken]
    /\ m_did_download = [n \in Notifiers |-> FALSE]
    /\ started = [n \in Notifiers |-> FALSE]
    /\ avail = [n \in Notifiers |-> [s \in Stores |-> "unknown"]]
    /\ version = [n \in Notifiers |-> [s \in Stores |-> 0]]
    /\ observed = [n \in Notifiers |-> [s \in Stores |-> 0]]
    /\ work_queue = [n \in Notifiers |-> <<>>]
    /\ rc_pc = [n \in Notifiers |-> "idle"]
    /\ notifications = <<>>
    /\ realms = <<>>
    /\ startLog = [n \in Notifiers |-> <<>>]
    /\ admitLog = [n \in Notifiers |-> <<>>]
    /\ enqLog = [n \in Notifiers |-> <<>>]
    /\ completeLog = <<>>
    /\ errorResults = <<>>
    /\ unhandledRaised = FALSE
    /\ signal = [n \in Notifiers |-> FALSE]

\* ------------------------------------------------ index sets, flattening
\* IndexSet::add: the set with position i added, ranges merged
RECURSIVE IndexSetAdd(_, _)
IndexSetAdd(rs, i) ==
    IF rs = <<>> THEN <<[b |-> i, e |-> i + 1]>>
    ELSE LET r == Head(rs) IN
         IF i + 1 < r.b THEN <<[b |-> i, e |-> i + 1]>> \o rs
         ELSE IF i + 1 = r.b THEN <<[b |-> i, e |-> r.e]>> \o Tail(rs)
         ELSE IF i < r.e THEN rs
         ELSE IF i = r.e
         THEN IF Len(rs) > 1 /\ rs[2].b = i + 1
              THEN <<[b |-> r.b, e |-> rs[2].e]>> \o Tail(Tail(rs))
              ELSE <<[b |-> r.b, e |-> i + 1]>> \o Tail(rs)
         ELSE <<r>> \o IndexSetAdd(Tail(rs), i)

\* the IndexSet of a sequence of positions added one by one
RECURSIVE IndexSetOf(_)
IndexSetOf(ps) ==
    IF ps = <<>> THEN <<>>
    ELSE IndexSetAdd(IndexSetOf(SubSeq(ps, 1, Len(ps) - 1)), ps[Len(ps)])

\* get_indexes_vector: the positions of the ranges of an IndexSet, in the
\* order as_indexes() iterates them
RECURSIVE get_indexes_vector(_)
get_indexes_vector(rs) ==
    IF rs = <<>> THEN <<>>
    ELSE [k \in 1..(Head(rs).e - Head(rs).b) |-> Head(rs).b + k - 1]
             \o get_indexes_vector(Tail(rs))

\* a pointer and length pair that leaves out the last element
MarshallableIndexSet_short(v) ==
    [items |-> v, count |-> IF v = <<>> THEN 0 ELSE Len(v) - 1]

\* {vector_storage.back().data(), vector_storage.back().size()}: the
\* pointer and length the consumer gets
MarshallableIndexSet(v) == [items |-> v, count |-> Len(v)]

\* what the consumer reads from a MarshallableIndexSet
ReadIndexes(m) == SubSeq(m.items, 1, m.count)

\* a position is added to the IndexSet and the set is flattened for
\* transport, as for each of the four sets of a changeset
FlattenAfterAdd(i) ==
    /\ Len(positions) < MaxAdds
    /\ positions' = Append(positions, i)
    /\ indexes' = IndexSetAdd(indexes, i)
    /\ flat' = MarshallableIndexSet(get_indexes_vector(IndexSetAdd(indexes, i)))

Init ==
    /\ BridgeInit
    /\ snapshots = NoTables
    /\ positions = <<>>
    /\ indexes = <<>>
    /\ flat = MarshallableIndexSet(<<>>)

\* ------------------------------------------------- the Callback object
\* Callback::download_complete
download_complete(n) ==
    /\ m_did_download' = [m_did_download EXCEPT ![n] = TRUE]
    /\ startLog' = [startLog EXCEPT ![n] = Append(@,
            [inst |-> m_managed_instance[n], code |-> 0,
             cause |-> "download_complete", synced |-> m_did_download[n]])]
    /\ UNCHANGED terminated

\* a Callback::error that reports a post-download system error through
\* s_start_callback instead of terminating
error_reports_after_download(n, e) ==
    /\ IF e.kind = "system_error"
       THEN /\ startLog' = [startLog EXCEPT ![n] = Append(@,
                    [inst |-> m_managed_instance[n], code |-> e.code,
                     cause |-> "error", synced |-> m_did_download[n]])]
            /\ UNCHANGED terminated
       ELSE /\ terminated' = "Unhandled GlobalNotifier exception type"
            /\ UNCHANGED startLog
    /\ UNCHANGED m_did_download

\* a Callback::error that logs a pre-download exception of an unhandled
\* type and reports it through s_start_callback instead of terminating
error_reports_unhandled_type(n, e) ==
    /\ IF ~m_did_download[n]
       THEN /\ startLog' = [startLog EXCEPT ![n] = Append(@,
                    [inst |-> m_managed_instance[n],
                     code |-> IF e.kind = "system_error" THEN e.code ELSE -1,
                     cause |-> "error", synced |-> m_did_download[n]])]
            /\ UNCHANGED terminated
       ELSE /\ terminated' = "Unhandled GlobalNotifier runtime error"
            /\ UNCHANGED startLog
    /\ UNCHANGED m_did_download

\* Callback::error.  An exception that matches neither catch clause leaves
\* error() through rethrow_exception; the engine's thread has no handler
\* for it and the runtime terminates the process.
error(n, e) ==
    /\ IF ~m_did_download[n]
       THEN IF e.kind = "system_error"
            THEN /\ startLog' = [startLog EXCEPT ![n] = Append(@,
                         [inst |-> m_managed_instance[n], code |-> e.code,
                          cause |-> "error", synced |-> m_did_download[n]])]
                 /\ UNCHANGED terminated
            ELSE IF e.kind = "exception"
            THEN /\ terminated' = "Unhandled GlobalNotifier exception type"
                 /\ UNCHANGED startLog
            ELSE /\ terminated' = "terminate called after throwing"
                 /\ UNCHANGED startLog
       ELSE /\ terminated' = "Unhandled GlobalNotifier runtime error"
            /\ UNCHANGED startLog
    /\ UNCHANGED m_did_download

\* a Callback::realm_available that admits every store, whatever the
\* predicate answers
realm_available_always(n, id, virtual_path, answer, ret) ==
    /\ admitLog' = [admitLog EXCEPT ![n] = Append(@,
            [inst |-> m_managed_instance[n], path |-> virtual_path,
             result |-> answer])]
    /\ ret = TRUE

\* a Callback::realm_available that asks the predicate twice
realm_available_twice(n, id, virtual_path, answer, ret) ==
    /\ admitLog' = [admitLog EXCEPT ![n] = @ \o
            << [inst |-> m_managed_instance[n], path |-> virtual_path,
                result |-> answer],
               [inst |-> m_managed_instance[n], path |-> virtual_path,
                result |-> answer] >>]
    /\ ret = answer

\* Callback::realm_available: answer is what the consumer's predicate
\* returns for this call, ret what the engine gets back
realm_available(n, id, virtual_path, answer, ret) ==
    /\ admitLog' = [admitLog EXCEPT ![n] = Append(@,
            [inst |-> m_managed_instance[n], path |-> virtual_path,
             result |-> answer])]
    /\ ret = answer

\* GlobalNotifier::next_changed_realm: the popped notification, or None
next_changed_realm(n) ==
    IF work_queue[n] = <<>> THEN None ELSE Head(work_queue[n])

\* the ready queue after next_changed_realm
next_changed_realm_rest(n) ==
    IF work_queue[n] = <<>> THEN <<>> ELSE Tail(work_queue[n])

\* a notification whose changes are computed when it is made
NewNotification_eager(n, change) ==
    [notifier |-> n, realm_path |-> change.realm_path, old |-> change.old,
     new |-> change.new, live |-> TRUE, computed |-> 1]

\* new GlobalNotifier::ChangeNotification(std::move(change.value()))
NewNotification(n, change) ==
    [notifier |-> n, realm_path |-> change.realm_path, old |-> change.old,
     new |-> change.new, live |-> TRUE, computed |-> 0]

EnqueueCall(n, change, h) ==
    [inst |-> m_managed_instance[n], path |-> change.realm_path, handle |-> h]

\* a realm_changed written with `if` where the code has `while`: it
\* returns after the first notification
realm_changed_iter_once(n) ==
    LET change == next_changed_realm(n) IN
    /\ IF change # None
       THEN /\ notifications' = Append(notifications, NewNotification(n, change))
            /\ enqLog' = [enqLog EXCEPT ![n] =
                    Append(@, EnqueueCall(n, change, Len(notifications) + 1))]
       ELSE UNCHANGED <<notifications, enqLog>>
    /\ work_queue' = [work_queue EXCEPT ![n] = next_changed_realm_rest(n)]
    /\ rc_pc' = [rc_pc EXCEPT ![n] = "idle"]

\* a realm_changed that fetches the next notification before it hands
\* over the one it holds, and hands the later one first
realm_changed_iter_lookahead(n) ==
    LET q == work_queue[n] IN
    IF Len(q) >= 2
    THEN /\ notifications' = notifications \o
                <<NewNotification(n, q[2]), NewNotification(n, q[1])>>
         /\ enqLog' = [enqLog EXCEPT ![n] = @ \o
                <<EnqueueCall(n, q[2], Len(notifications) + 1),
                  EnqueueCall(n, q[1], Len(notifications) + 2)>>]
         /\ work_queue' = [work_queue EXCEPT ![n] = Tail(Tail(q))]
         /\ UNCHANGED rc_pc
    ELSE IF Len(q) = 1
    THEN /\ notifications' = Append(notifications, NewNotification(n, q[1]))
         /\ enqLog' = [enqLog EXCEPT ![n] =
                Append(@, EnqueueCall(n, q[1], Len(notifications) + 1))]
         /\ work_queue' = [work_queue EXCEPT ![n] = <<>>]
         /\ UNCHANGED rc_pc
    ELSE /\ rc_pc' = [rc_pc EXCEPT ![n] = "idle"]
         /\ UNCHANGED <<notifications, enqLog, work_queue>>

\* one evaluation of the loop condition of Callback::realm_changed and,
\* when a notification was popped, the loop body
realm_changed_iter(n) ==
    LET change == next_changed_realm(n) IN
    IF change # None
    THEN /\ notifications' = Append(notifications, NewNotification(n, change))
         /\ enqLog' = [enqLog EXCEPT ![n] =
                Append(@, EnqueueCall(n, change, Len(notifications) + 1))]
         /\ work_queue' = [work_queue EXCEPT ![n] = next_changed_realm_rest(n)]
         /\ UNCHANGED rc_pc
    ELSE /\ rc_pc' = [rc_pc EXCEPT ![n] = "idle"]
         /\ UNCHANGED <<notifications, enqLog, work_queue>>

\* ------------------------------------------- ChangeNotification accessors
\* the on-disk path of a store, newRealm->config().path
DiskPath(path) == "disk:" \o path

\* ChangeNotification::get_old_realm: null when the notification has no
\* previous snapshot, otherwise the snapshot at the old version
get_old_realm(h) ==
    IF notifications[h].old = 0 THEN None
    ELSE [realm_path |-> notifications[h].realm_path,
          old |-> 0, new |-> notifications[h].old]

\* ChangeNotification::get_new_realm: the snapshot at the new version
get_new_realm(h) ==
    [realm_path |-> notifications[h].realm_path,
     old |-> 0, new |-> notifications[h].new]

\* new SharedRealm(...) of a snapshot
NewRealm(snapshot) ==
    [realm_path |-> snapshot.realm_path, version |-> snapshot.new]

\* the rows of a collection of a snapshot, none when it is not there
RowsOf(tables, c) == tables[c].rows

\* the snapshot has a row of this identity
HasId(rows, id) == \E q \in 1..Len(rows) : rows[q].id = id

\* the snapshot has a row of this identity with another content
HasChanged(rows, r) ==
    \E q \in 1..Len(rows) : rows[q].id = r.id /\ rows[q].content # r.content

\* one scan of the rows p..1 of a collection against the other snapshot:
\* the IndexSet of the positions (from 0) of the rows only here
RECURSIVE OnlyHere(_, _, _)
OnlyHere(rows, other, p) ==
    IF p = 0 THEN <<>>
    ELSE IF HasId(other, rows[p].id) THEN OnlyHere(rows, other, p - 1)
         ELSE IndexSetAdd(OnlyHere(rows, other, p - 1), p - 1)

\* ... and of the rows that are in both with a changed content
RECURSIVE Changed(_, _, _)
Changed(rows, other, p) ==
    IF p = 0 THEN <<>>
    ELSE IF HasChanged(other, rows[p]) THEN
             IndexSetAdd(Changed(rows, other, p - 1), p - 1)
         ELSE Changed(rows, other, p - 1)

\* the CollectionChangeSet of one collection
CollectionChangeSet(prev, cur) ==
    [deletions |-> OnlyHere(prev, cur, Len(prev)),
     insertions |-> OnlyHere(cur, prev, Len(cur)),
     modifications |-> Changed(prev, cur, Len(prev)),
     modifications_new |-> Changed(cur, prev, Len(cur))]

\* the order the changes are iterated in
CollectionOrder == <<"Cat", "Dog">>

\* the changes between two snapshots: a pair (name, CollectionChangeSet)
\* for each collection present in either
ComputeChanges(previous, current) ==
    LET present(k) == previous[CollectionOrder[k]] # Absent
                          \/ current[CollectionOrder[k]] # Absent
        entry(k) == [first |-> CollectionOrder[k],
                     second |-> CollectionChangeSet(
                                    RowsOf(previous, CollectionOrder[k]),
                                    RowsOf(current, CollectionOrder[k]))]
    IN IF present(1) /\ present(2) THEN <<entry(1), entry(2)>>
       ELSE IF present(1) THEN <<entry(1)>>
       ELSE IF present(2) THEN <<entry(2)>>
       ELSE <<>>

\* what the old snapshot of a notification holds: nothing when there is
\* no old snapshot
OldTables(h) ==
    IF notifications[h].old = 0 THEN [c \in Collections |-> Absent]
    ELSE snapshots.previous

\* ChangeNotification::get_changes
get_changes(h) == ComputeChanges(OldTables(h), snapshots.current)

\* a marshalling that fills insertions from the deletions and the
\* deletions from the insertions
MarshalChangeset_swapped(changeset) ==
    [name |-> changeset.first,
     deletions |->
         MarshallableIndexSet(get_indexes_vector(changeset.second.insertions)),
     insertions |->
         MarshallableIndexSet(get_indexes_vector(changeset.second.deletions)),
     previous_modifications |->
         MarshallableIndexSet(get_indexes_vector(changeset.second.modifications)),
     current_modifications |->
         MarshallableIndexSet(
             get_indexes_vector(changeset.second.modifications_new))]

\* a marshalling that fills both modification fields from the
\* modifications in previous coordinates
MarshalChangeset_one_space(changeset) ==
    [name |-> changeset.first,
     deletions |->
         MarshallableIndexSet(get_indexes_vector(changeset.second.deletions)),
     insertions |->
         MarshallableIndexSet(get_indexes_vector(changeset.second.insertions)),
     previous_modifications |->
         MarshallableIndexSet(get_indexes_vector(changeset.second.modifications)),
     current_modifications |->
         MarshallableIndexSet(get_indexes_vector(changeset.second.modifications))]

\* the body of the loop over the changes: one marshalled changeset
MarshalChangeset(changeset) ==
    [name |-> changeset.first,
     deletions |->
         MarshallableIndexSet(get_indexes_vector(changeset.second.deletions)),
     insertions |->
         MarshallableIndexSet(get_indexes_vector(changeset.second.insertions)),
     previous_modifications |->
         MarshallableIndexSet(get_indexes_vector(changeset.second.modifications)),
     current_modifications |->
         MarshallableIndexSet(
             get_indexes_vector(changeset.second.modifications_new))]

\* ------------------------------------------------------ exported functions
\* realm_server_install_callbacks
realm_server_install_callbacks ==
    /\ terminated = Running
    /\ s_callbacks' = "installed"
    /\ UNCHANGED <<handle, m_managed_instance>>
    /\ UNCHANGED <<callbackVars, engineVars, heapVars>>
    /\ UNCHANGED auxVars

\* a create that builds the GlobalNotifier and returns its handle without
\* calling notifier->start()
create_without_start(n, managed_instance, config_ok) ==
    /\ terminated = Running
    /\ s_callbacks = "installed"
    /\ handle[n] = "none"
    /\ \A m \in Notifiers : m_managed_instance[m] # managed_instance
    /\ IF config_ok
       THEN /\ m_managed_instance' =
                   [m_managed_instance EXCEPT ![n] = managed_instance]
            /\ handle' = [handle EXCEPT ![n] = "live"]
       ELSE /\ Events < MaxEvents
            /\ handle' = [handle EXCEPT ![n] = "error"]
            /\ UNCHANGED m_managed_instance
    /\ UNCHANGED <<started, avail, version, observed, work_queue, rc_pc>>
    /\ UNCHANGED <<s_callbacks, callbackVars, heapVars>>
    /\ UNCHANGED auxVars

\* a create that reports a configuration error through the lifecycle
\* callback of the notifier it failed to build
create_reports_through_lifecycle(n, managed_instance, config_ok) ==
    /\ terminated = Running
    /\ s_callbacks = "installed"
    /\ handle[n] = "none"
    /\ \A m \in Notifiers : m_managed_instance[m] # managed_instance
    /\ IF config_ok
       THEN /\ m_managed_instance' =
                   [m_managed_instance EXCEPT ![n] = managed_instance]
            /\ started' = [started EXCEPT ![n] = TRUE]
            /\ handle' = [handle EXCEPT ![n] = "live"]
            /\ UNCHANGED startLog
       ELSE /\ Events < MaxEvents
            /\ handle' = [handle EXCEPT ![n] = "error"]
            /\ startLog' = [startLog EXCEPT ![n] = Append(@,
                    [inst |-> managed_instance, code |-> -1,
                     cause |-> "error", synced |-> FALSE])]
            /\ UNCHANGED <<m_managed_instance, started>>
    /\ UNCHANGED <<avail, version, observed, work_queue, rc_pc>>
    /\ UNCHANGED <<s_callbacks, m_did_download, admitLog, enqLog, terminated>>
    /\ UNCHANGED heapVars
    /\ UNCHANGED auxVars

\* realm_server_create_global_notifier.  config_ok is whether the string
\* accessors, SyncConfig and the GlobalNotifier constructor all succeed;
\* otherwise handle_errors stores the exception in ex and null is returned.
\* The managed caller installs the callbacks before it creates a notifier.
\* a create whose Callback keeps the managed instance in one place shared
\* by all notifiers
create_shared_instance(n, managed_instance, config_ok) ==
    /\ terminated = Running
    /\ s_callbacks = "installed"
    /\ handle[n] = "none"
    /\ \A m \in Notifiers : m_managed_instance[m] # managed_instance
    /\ IF config_ok
       THEN /\ m_managed_instance' = [m \in Notifiers |-> managed_instance]
            /\ started' = [started EXCEPT ![n] = TRUE]
            /\ handle' = [handle EXCEPT ![n] = "live"]
       ELSE /\ Events < MaxEvents
            /\ handle' = [handle EXCEPT ![n] = "error"]
            /\ UNCHANGED <<m_managed_instance, started>>
    /\ UNCHANGED <<avail, version, observed, work_queue, rc_pc>>
    /\ UNCHANGED <<s_callbacks, callbackVars, heapVars>>
    /\ UNCHANGED auxVars

realm_server_create_global_notifier(n, managed_instance, config_ok) ==
    /\ terminated = Running
    /\ s_callbacks = "installed"
    /\ handle[n] = "none"
    /\ \A m \in Notifiers : m_managed_instance[m] # managed_instance
    /\ IF config_ok
       THEN /\ m_managed_instance' =
                   [m_managed_instance EXCEPT ![n] = managed_instance]
            /\ started' = [started EXCEPT ![n] = TRUE]
            /\ handle' = [handle EXCEPT ![n] = "live"]
       ELSE /\ Events < MaxEvents
            /\ handle' = [handle EXCEPT ![n] = "error"]
            /\ UNCHANGED <<m_managed_instance, started>>
    /\ UNCHANGED <<avail, version, observed, work_queue, rc_pc>>
    /\ UNCHANGED <<s_callbacks, callbackVars, heapVars>>
    /\ UNCHANGED auxVars

\* a destroy that drops the caller's pointer without deleting the
\* shared_ptr, so the GlobalNotifier keeps running
destroy_without_delete(n) ==
    /\ terminated = Running
    /\ handle[n] = "live"
    /\ rc_pc[n] = "idle"
    /\ Events < MaxEvents
    /\ handle' = [handle EXCEPT ![n] = "destroyed"]
    /\ UNCHANGED <<started, avail, version, observed, work_queue, rc_pc>>
    /\ UNCHANGED <<s_callbacks, m_managed_instance, callbackVars, heapVars>>
    /\ UNCHANGED auxVars

\* realm_server_global_notifier_destroy: deletes the only shared_ptr, so
\* the GlobalNotifier and the Callback it owns are destroyed.  The caller
\* does not destroy a notifier while one of its callbacks is running.
realm_server_global_notifier_destroy(n) ==
    /\ terminated = Running
    /\ handle[n] = "live"
    /\ rc_pc[n] = "idle"
    /\ Events < MaxEvents
    /\ handle' = [handle EXCEPT ![n] = "destroyed"]
    /\ started' = [started EXCEPT ![n] = FALSE]
    /\ UNCHANGED <<avail, version, observed, work_queue, rc_pc>>
    /\ UNCHANGED <<s_callbacks, m_managed_instance, callbackVars, heapVars>>
    /\ UNCHANGED auxVars

Envelope(h, managed_callback, changes, previous, current) ==
    [handle |-> h, token |-> managed_callback,
     changesets_count |-> Len(changes),
     changesets |-> [k \in 1..Len(changes) |-> MarshalChangeset(changes[k])],
     path |-> notifications[h].realm_path,
     path_on_disk |-> DiskPath(get_new_realm(h).realm_path),
     previous |-> previous, current |-> current]

\* the error result a request returns through ex
ErrorResult(h, managed_callback, thrower) ==
    [handle |-> h, token |-> managed_callback, thrower |-> thrower]

\* a get_changes that never fills in notification.previous
get_changes_previous_unset(h, managed_callback) ==
    /\ terminated = Running
    /\ s_callbacks = "installed"
    /\ h \in 1..Len(notifications)
    /\ notifications[h].live
    /\ Events < MaxEvents
    /\ snapshots.fault = "none"
    /\ notifications' = [notifications EXCEPT ![h].computed = @ + 1]
    /\ realms' = Append(realms, NewRealm(get_new_realm(h)))
    /\ completeLog' = Append(completeLog,
            Envelope(h, managed_callback, get_changes(h),
                     NullHandle, Len(realms) + 1))
    /\ UNCHANGED <<callerVars, callbackVars, engineVars>>
    /\ UNCHANGED auxVars

\* a get_changes that moves the old snapshot out of the notification
get_changes_consuming(h, managed_callback) ==
    /\ terminated = Running
    /\ s_callbacks = "installed"
    /\ h \in 1..Len(notifications)
    /\ notifications[h].live
    /\ Events < MaxEvents
    /\ snapshots.fault = "none"
    /\ notifications' = [notifications EXCEPT ![h].computed = @ + 1,
                                                ![h].old = 0]
    /\ LET previous == get_old_realm(h)
           newRealm == get_new_realm(h)
       IN IF previous # None
          THEN /\ realms' = realms \o <<NewRealm(previous), NewRealm(newRealm)>>
               /\ completeLog' = Append(completeLog,
                      Envelope(h, managed_callback, get_changes(h),
                               Len(realms) + 1, Len(realms) + 2))
          ELSE /\ realms' = Append(realms, NewRealm(newRealm))
               /\ completeLog' = Append(completeLog,
                      Envelope(h, managed_callback, get_changes(h),
                               NullHandle, Len(realms) + 1))
    /\ UNCHANGED <<callerVars, callbackVars, engineVars>>
    /\ UNCHANGED auxVars

\* realm_server_global_notifier_notification_get_changes: the changes are
\* computed and marshalled, the snapshot handles allocated, the envelope
\* delivered; an exception of a call ends the request with an error result
realm_server_global_notifier_notification_get_changes(h, managed_callback) ==
    /\ terminated = Running
    /\ s_callbacks = "installed"
    /\ h \in 1..Len(notifications)
    /\ notifications[h].live
    /\ Events < MaxEvents
    /\ notifications' = [notifications EXCEPT ![h].computed = @ + 1]
    /\ LET previous == get_old_realm(h)
           newRealm == get_new_realm(h)
       IN IF snapshots.fault \in {"get_changes", "get_old_realm"}
          THEN /\ errorResults' = Append(errorResults,
                      ErrorResult(h, managed_callback, snapshots.fault))
               /\ UNCHANGED <<realms, completeLog>>
          ELSE IF snapshots.fault = "get_new_realm"
          THEN /\ realms' = IF previous # None
                            THEN Append(realms, NewRealm(previous))
                            ELSE realms
               /\ errorResults' = Append(errorResults,
                      ErrorResult(h, managed_callback, snapshots.fault))
               /\ UNCHANGED completeLog
          ELSE IF previous # None
          THEN /\ realms' = realms \o <<NewRealm(previous), NewRealm(newRealm)>>
               /\ completeLog' = Append(completeLog,
                      Envelope(h, managed_callback, get_changes(h),
                               Len(realms) + 1, Len(realms) + 2))
               /\ UNCHANGED errorResults
          ELSE /\ realms' = Append(realms, NewRealm(newRealm))
               /\ completeLog' = Append(completeLog,
                      Envelope(h, managed_callback, get_changes(h),
                               NullHandle, Len(realms) + 1))
               /\ UNCHANGED errorResults
    /\ UNCHANGED <<callerVars, callbackVars, engineVars>>
    /\ UNCHANGED <<unhandledRaised, snapshots, flattenVars, signal>>

\* realm_server_global_notifier_notification_destroy
realm_server_global_notifier_notification_destroy(h) ==
    /\ terminated = Running
    /\ h \in 1..Len(notifications)
    /\ notifications[h].live
    /\ notifications' = [notifications EXCEPT ![h].live = FALSE]
    /\ UNCHANGED <<realms, completeLog, callerVars, callbackVars, engineVars>>
    /\ UNCHANGED auxVars

\* ------------------------------------------------------------- the engine
Listening(n) == terminated = Running /\ started[n]

\* the engine finishes the initial download
EngineDownloadComplete(n) ==
    /\ Listening(n)
    /\ Events < MaxEvents
    /\ download_complete(n)
    /\ UNCHANGED <<admitLog, enqLog, callerVars, engineVars, heapVars>>
    /\ UNCHANGED auxVars

\* the engine reports an error
EngineError(n, e) ==
    /\ Listening(n)
    /\ Events < MaxEvents
    /\ error(n, e)
    /\ UNCHANGED <<admitLog, enqLog, callerVars, engineVars, heapVars>>
    /\ unhandledRaised' =
          (unhandledRaised \/ (~m_did_download[n] /\ e.kind # "system_error"))
    /\ UNCHANGED <<requestVars, flattenVars, signal>>

\* the engine discovers a store and asks whether to watch it
EngineRealmAvailable(n, s) ==
    /\ Listening(n)
    /\ avail[n][s] = "unknown"
    /\ Events < MaxEvents
    /\ \E answer \in BOOLEAN, ret \in BOOLEAN :
          /\ realm_available(n, RealmId(s), s, answer, ret)
          /\ avail' = [avail EXCEPT ![n][s] =
                          IF ret THEN "admitted" ELSE "rejected"]
    /\ UNCHANGED <<m_did_download, startLog, enqLog, terminated>>
    /\ UNCHANGED <<started, version, observed, work_queue, rc_pc>>
    /\ UNCHANGED <<callerVars, heapVars>>
    /\ UNCHANGED auxVars

\* a transaction is committed on a discovered store; the engine queues a
\* ChangeNotification when the store was admitted
Commit(n, s) ==
    /\ Listening(n)
    /\ avail[n][s] # "unknown"
    /\ Events < MaxEvents
    /\ version' = [version EXCEPT ![n][s] = @ + 1]
    /\ IF avail[n][s] = "admitted"
       THEN /\ work_queue' = [work_queue EXCEPT ![n] = Append(@,
                    [realm_path |-> s, old |-> observed[n][s],
                     new |-> version[n][s] + 1])]
            /\ observed' = [observed EXCEPT ![n][s] = version[n][s] + 1]
       ELSE UNCHANGED <<work_queue, observed>>
    /\ UNCHANGED <<started, avail, rc_pc>>
    /\ UNCHANGED <<callerVars, callbackVars, heapVars>>

\* a commit, the signalling left to EngineRealmChanged
EngineCommit(n, s) ==
    /\ Commit(n, s)
    /\ UNCHANGED auxVars

\* the detection worker pushes the notification of a commit on an admitted
\* store and raises the realm_changed signal
DetectionWorkerPush(n, s) ==
    /\ avail[n][s] = "admitted"
    /\ Commit(n, s)
    /\ signal' = [signal EXCEPT ![n] = TRUE]
    /\ UNCHANGED <<unhandledRaised, requestVars, flattenVars>>

\* the pending signal is delivered on the consumer's side: realm_changed is
\* entered, also when the queue was drained meanwhile
SignalDelivered(n) ==
    /\ Listening(n)
    /\ rc_pc[n] = "idle"
    /\ signal[n]
    /\ signal' = [signal EXCEPT ![n] = FALSE]
    /\ rc_pc' = [rc_pc EXCEPT ![n] = "loop"]
    /\ UNCHANGED <<started, avail, version, observed, work_queue>>
    /\ UNCHANGED <<callerVars, callbackVars, heapVars>>
    /\ UNCHANGED <<unhandledRaised, requestVars, flattenVars>>

\* the engine signals that notifications are ready: realm_changed is entered
EngineRealmChanged(n) ==
    /\ Listening(n)
    /\ rc_pc[n] = "idle"
    /\ work_queue[n] # <<>>
    /\ rc_pc' = [rc_pc EXCEPT ![n] = "loop"]
    /\ UNCHANGED <<started, avail, version, observed, work_queue>>
    /\ UNCHANGED <<callerVars, callbackVars, heapVars>>
    /\ UNCHANGED auxVars

\* realm_changed runs one iteration of its loop
RealmChangedStep(n) ==
    /\ terminated = Running
    /\ rc_pc[n] = "loop"
    /\ realm_changed_iter(n)
    /\ UNCHANGED <<m_did_download, startLog, admitLog, terminated>>
    /\ UNCHANGED <<started, avail, version, observed>>
    /\ UNCHANGED <<callerVars, realms, completeLog>>
    /\ UNCHANGED auxVars

\* ----------------------------------------------------------- specification
ConsumerTokens == {"k1", "k2"}

Next ==
    \/ realm_server_install_callbacks
    \/ \E n \in Notifiers, t \in Tokens, ok \in BOOLEAN :
          realm_server_create_global_notifier(n, t, ok)
    \/ \E n \in Notifiers : realm_server_global_notifier_destroy(n)
    \/ \E n \in Notifiers : EngineDownloadComplete(n)
    \/ \E n \in Notifiers, e \in Errors : EngineError(n, e)
    \/ \E n \in Notifiers, s \in Stores : EngineRealmAvailable(n, s)
    \/ \E n \in Notifiers, s \in Stores : EngineCommit(n, s)
    \/ \E n \in Notifiers : EngineRealmChanged(n)
    \/ \E n \in Notifiers : RealmChangedStep(n)
    \/ \E h \in 1..Len(notifications), k \in ConsumerTokens :
          realm_server_global_notifier_notification_get_changes(h, k)
    \/ \E h \in 1..Len(notifications) :
          realm_server_global_notifier_notification_destroy(h)

Spec == Init /\ [][Next]_vars

\* the requests alone, for every content of the snapshots: notifier n1
\* watches store /a and has handed over the notification of its latest
\* commit; that is of the first version (first) or of the second, the
\* notification of the first version being destroyed
DiffStart(first) ==
    LET inst == CHOOSE k \in Tokens : TRUE
        n1 == CHOOSE n \in Notifiers : TRUE
        s == "/a"
        last == IF first THEN 1 ELSE 2
        note(v) == [notifier |-> n1, realm_path |-> s, old |-> v - 1,
                    new |-> v, live |-> v = last, computed |-> 0]
        call(v) == [inst |-> inst, path |-> s, handle |-> v]
    IN
    /\ s_callbacks = "installed"
    /\ terminated = Running
    /\ handle = [n \in Notifiers |-> IF n = n1 THEN "live" ELSE "none"]
    /\ m_managed_instance = [n \in Notifiers |-> IF n = n1 THEN inst ELSE NoToken]
    /\ m_did_download = [n \in Notifiers |-> n = n1 /\ first]
    /\ started = [n \in Notifiers |-> n = n1]
    /\ avail = [n \in Notifiers |-> [x \in Stores |->
                    IF n = n1 /\ x = s THEN "admitted" ELSE "unknown"]]
    /\ version = [n \in Notifiers |-> [x \in Stores |->
                    IF n = n1 /\ x = s THEN last ELSE 0]]
    /\ observed = version
    /\ work_queue = [n \in Notifiers |-> <<>>]
    /\ rc_pc = [n \in Notifiers |-> "idle"]
    /\ notifications = [v \in 1..last |-> note(v)]
    /\ realms = <<>>
    /\ startLog = [n \in Notifiers |->
                    IF n = n1 /\ first
                    THEN <<[inst |-> inst, code |-> 0,
                            cause |-> "download_complete", synced |-> FALSE]>>
                    ELSE <<>>]
    /\ admitLog = [n \in Notifiers |->
                    IF n = n1 THEN <<[inst |-> inst, path |-> s, result |-> TRUE]>>
                    ELSE <<>>]
    /\ enqLog = [n \in Notifiers |->
                    IF n = n1 THEN [v \in 1..last |-> call(v)] ELSE <<>>]
    /\ completeLog = <<>>
    /\ errorResults = <<>>
    /\ unhandledRaised = FALSE
    /\ signal = [n \in Notifiers |-> FALSE]
    /\ positions = <<>>
    /\ indexes = <<>>
    /\ flat = MarshallableIndexSet(<<>>)

InitDiff ==
    \E first \in BOOLEAN :
        /\ DiffStart(first)
        /\ snapshots \in HealthySnapshots \cup FaultySnapshots
        /\ first => snapshots.previous = NoTables.previous

NextDiff ==
    \/ \E h \in 1..Len(notifications), k \in ConsumerTokens :
          realm_server_global_notifier_notification_get_changes(h, k)
    \/ \E h \in 1..Len(notifications) :
          realm_server_global_notifier_notification_destroy(h)

SpecDiff == InitDiff /\ [][NextDiff]_vars

\* the ready queue alone, one detection worker against one draining
\* realm_changed per notifier: notifier n1 listens and has admitted both
\* stores
QueueStart ==
    LET inst == CHOOSE k \in Tokens : TRUE
        n1 == CHOOSE n \in Notifiers : TRUE
    IN
    /\ s_callbacks = "installed"
    /\ terminated = Running
    /\ handle = [n \in Notifiers |-> IF n = n1 THEN "live" ELSE "none"]
    /\ m_managed_instance = [n \in Notifiers |-> IF n = n1 THEN inst ELSE NoToken]
    /\ m_did_download = [n \in Notifiers |-> FALSE]
    /\ started = [n \in Notifiers |-> n = n1]
    /\ avail = [n \in Notifiers |-> [x \in Stores |->
                    IF n = n1 THEN "admitted" ELSE "unknown"]]
    /\ version = [n \in Notifiers |-> [x \in Stores |-> 0]]
    /\ observed = version
    /\ work_queue = [n \in Notifiers |-> <<>>]
    /\ rc_pc = [n \in Notifiers |-> "idle"]
    /\ notifications = <<>>
    /\ realms = <<>>
    /\ startLog = [n \in Notifiers |-> <<>>]
    /\ admitLog \in {log \in [Notifiers -> [1..2 -> [inst : {inst}, path : Stores, result : {TRUE}]] \cup {<<>>}] :
                        /\ \A n \in Notifiers \ {n1} : log[n] = <<>>
                        /\ Len(log[n1]) = 2
                        /\ log[n1][1].path # log[n1][2].path}
    /\ enqLog = [n \in Notifiers |-> <<>>]
    /\ completeLog = <<>>
    /\ errorResults = <<>>
    /\ unhandledRaised = FALSE
    /\ signal = [n \in Notifiers |-> FALSE]
    /\ positions = <<>>
    /\ indexes = <<>>
    /\ flat = MarshallableIndexSet(<<>>)
    /\ snapshots = NoTables

NextQueue ==
    \/ \E n \in Notifiers, s \in Stores : DetectionWorkerPush(n, s)
    \/ \E n \in Notifiers : SignalDelivered(n)
    \/ \E n \in Notifiers : RealmChangedStep(n)

\* the signal is delivered and realm_changed runs to its end
QueueFairness ==
    \A n \in Notifiers :
        WF_vars(SignalDelivered(n)) /\ WF_vars(RealmChangedStep(n))

SpecQueue == QueueStart /\ [][NextQueue]_vars /\ QueueFairness

\* flattening alone: index sets built from every sequence of positions
NextFlatten ==
    \E i \in 0..(MaxIndex - 1) :
        /\ FlattenAfterAdd(i)
        /\ UNCHANGED <<callerVars, callbackVars, engineVars, heapVars>>
        /\ UNCHANGED <<unhandledRaised, requestVars, signal>>

SpecFlatten == Init /\ [][NextFlatten]_vars

\* ------------------------------------------------------------ properties
\* the notification object an enqueue call handed over
Handed(n, i) == notifications[enqLog[n][i].handle]

\* how often the admission predicate was asked about store s of notifier n
AdmitCount(n, s) == Count(admitLog[n], LAMBDA c : c.path = s)

\* the copies of the notification of version v of store s that notifier n
\* still holds in its ready queue, and those it has handed to the consumer
InQueue(n, s, v) ==
    Cardinality({i \in 1..Len(work_queue[n]) :
        work_queue[n][i].realm_path = s /\ work_queue[n][i].new = v})
InEnqueued(n, s, v) ==
    Cardinality({i \in 1..Len(enqLog[n]) :
        Handed(n, i).realm_path = s /\ Handed(n, i).new = v})

\* notification h is for the first version observed of its store: no
\* notification of the same store with an earlier version was made
IsFirstObserved(h) ==
    ~ \E g \in 1..Len(notifications) :
          /\ notifications[g].notifier = notifications[h].notifier
          /\ notifications[g].realm_path = notifications[h].realm_path
          /\ notifications[g].new < notifications[h].new

\* C1: the lifecycle start/error callback is invoked at most once over a
\* notifier's life, whatever download_complete and error events the engine
\* raises.
C1_LifecycleAtMostOnce ==
    \A n \in Notifiers : Len(startLog[n]) <= 1

\* C2: an error after the first successful synchronization is never
\* reported through the lifecycle callback; it terminates the process, and
\* after termination no lifecycle, admission, enqueue or
\* calculation-complete callback is invoked.
C2_PostDownloadErrorIsFatal ==
    /\ [](\A n \in Notifiers : \A i \in 1..Len(startLog[n]) :
            startLog[n][i].cause = "error" => ~startLog[n][i].synced)
    /\ [][\A n \in Notifiers, e \in Errors :
            (m_did_download[n] /\ EngineError(n, e)) =>
                terminated' = "Unhandled GlobalNotifier runtime error"]_vars
    /\ [][terminated # Running =>
            UNCHANGED <<startLog, admitLog, enqLog, completeLog>>]_vars

\* a process terminated by an error that followed a successful download,
\* which was reported once with code 0
C2_Witness ==
    /\ terminated = "Unhandled GlobalNotifier runtime error"
    /\ \E n \in Notifiers :
          /\ m_did_download[n]
          /\ Len(startLog[n]) = 1
          /\ startLog[n][1].cause = "download_complete"
          /\ admitLog[n] # <<>>

\* C3: the lifecycle callback carries code 0 exactly when it reports the
\* first successful synchronization; a failure is reported with a nonzero
\* code whatever code the system error holds.
C3_ZeroCodeIffDownloadComplete ==
    \A n \in Notifiers : \A i \in 1..Len(startLog[n]) :
        (startLog[n][i].code = 0) <=> (startLog[n][i].cause = "download_complete")

\* C4: a notification is handed to the enqueue callback only for a store
\* for which the admission predicate has returned true.
C4_NeverAdmittedNeverEnqueued ==
    \A n \in Notifiers : \A i \in 1..Len(enqLog[n]) :
        \E j \in 1..Len(admitLog[n]) :
            /\ admitLog[n][j].path = enqLog[n][i].path
            /\ admitLog[n][j].path = Handed(n, i).realm_path
            /\ admitLog[n][j].result

\* commits happened on a store the predicate refused while another store
\* of the same notifier had notifications handed over
C4_Witness ==
    \E n \in Notifiers, s \in Stores :
        /\ avail[n][s] = "rejected"
        /\ version[n][s] >= 1
        /\ enqLog[n] # <<>>

\* C5: the admission predicate is invoked exactly once per store the
\* engine reports, with the store's logical path, before any notification
\* of the store is queued; it is not asked again on later commits, and a
\* store answered false gets no notification.
C5_AdmissionOncePerStore ==
    \A n \in Notifiers :
        /\ \A s \in Stores :
              /\ AdmitCount(n, s) = IF avail[n][s] = "unknown" THEN 0 ELSE 1
              /\ version[n][s] > 0 => AdmitCount(n, s) = 1
              /\ (\E j \in 1..Len(admitLog[n]) :
                      admitLog[n][j].path = s /\ ~admitLog[n][j].result)
                  => /\ \A v \in 1..version[n][s] :
                            InQueue(n, s, v) + InEnqueued(n, s, v) = 0
                     /\ avail[n][s] = "rejected"
        /\ \A j \in 1..Len(admitLog[n]) : admitLog[n][j].path \in Stores
        /\ \A i \in 1..Len(work_queue[n]) :
              AdmitCount(n, work_queue[n][i].realm_path) = 1
        /\ \A i \in 1..Len(enqLog[n]) : AdmitCount(n, enqLog[n][i].path) = 1

\* a refused store with two later commits, and an admitted store with a
\* queued or delivered notification, each asked about once
C5_Witness ==
    \E n \in Notifiers, s \in Stores, r \in Stores :
        /\ avail[n][r] = "rejected" /\ version[n][r] >= 2
        /\ avail[n][s] = "admitted" /\ version[n][s] >= 1
        /\ AdmitCount(n, r) = 1 /\ AdmitCount(n, s) = 1

\* C6: notifications of one store reach the enqueue callback in commit
\* order, over any number of drains and any interleaving with other stores.
C6_PerStoreCommitOrder ==
    \A n \in Notifiers : \A i, j \in 1..Len(enqLog[n]) :
        (i < j /\ enqLog[n][i].path = enqLog[n][j].path)
            => Handed(n, i).new < Handed(n, j).new

\* two commits of one store handed over around a commit of another store
C6_Witness ==
    \E n \in Notifiers :
        /\ Len(enqLog[n]) >= 3
        /\ enqLog[n][1].path = enqLog[n][3].path
        /\ enqLog[n][1].path # enqLog[n][2].path
        /\ Handed(n, 1).new < Handed(n, 3).new

\* C7: every accepted transaction's notification is either still in the
\* ready queue or was handed to the enqueue callback exactly once, each
\* call passes a handle no other call passes, and realm_changed returns
\* only with the ready queue empty.
C7_EnqueuedExactlyOnce ==
    /\ [](\A n \in Notifiers, s \in Stores :
            avail[n][s] = "admitted" =>
                \A v \in 1..version[n][s] :
                    InQueue(n, s, v) + InEnqueued(n, s, v) = 1)
    /\ [](\A n, m \in Notifiers :
            \A i \in 1..Len(enqLog[n]), j \in 1..Len(enqLog[m]) :
                /\ enqLog[n][i].handle \in 1..Len(notifications)
                /\ Handed(n, i).notifier = n
                /\ enqLog[n][i].handle = enqLog[m][j].handle
                       => (n = m /\ i = j))
    /\ [][\A n \in Notifiers :
            (rc_pc[n] = "loop" /\ rc_pc'[n] = "idle")
                => work_queue'[n] = <<>>]_vars

\* a drain that handed over two notifications and returned
C7_Witness ==
    \E n \in Notifiers :
        /\ rc_pc[n] = "idle"
        /\ work_queue[n] = <<>>
        /\ Len(enqLog[n]) >= 2
        /\ \E h \in 1..Len(notifications) : ~notifications[h].live

\* C8: in every delivered envelope the previous snapshot handle is null
\* exactly when the notification is for the first version observed of its
\* store, and the current snapshot handle is never null.
C8_PreviousNullIffFirst ==
    \A k \in 1..Len(completeLog) :
        LET env == completeLog[k] IN
        /\ (env.previous = NullHandle) <=> IsFirstObserved(env.handle)
        /\ env.current # NullHandle
        /\ env.current \in 1..Len(realms)
        /\ realms[env.current].realm_path = env.path
        /\ realms[env.current].version = notifications[env.handle].new
        /\ env.previous # NullHandle =>
              /\ env.previous \in 1..Len(realms)
              /\ realms[env.previous].realm_path = env.path
              /\ realms[env.previous].version < realms[env.current].version

\* a delivery for a first version and one for a later version
C8_Witness ==
    \E k, l \in 1..Len(completeLog) :
        /\ completeLog[k].previous = NullHandle
        /\ completeLog[l].previous # NullHandle

\* C9: once a notifier handle is destroyed, no lifecycle, admission or
\* enqueue callback is invoked for that notifier, also with notifications
\* left in its ready queue.
C9_NoDeliveryAfterDestroy ==
    [][\A n \in Notifiers :
          handle[n] = "destroyed" =>
              /\ handle'[n] = "destroyed"
              /\ UNCHANGED <<startLog[n], admitLog[n], enqLog[n]>>]_vars

\* a destroyed notifier with notifications left in its ready queue
C9_Witness ==
    \E n \in Notifiers :
        /\ handle[n] = "destroyed"
        /\ work_queue[n] # <<>>
        /\ enqLog[n] # <<>>

\* C10 as stated: create establishes the watcher without beginning to
\* listen.
C10_CreateDoesNotListen ==
    [][\A n \in Notifiers :
          (handle[n] = "none" /\ handle'[n] = "live") => ~started'[n]]_vars

\* C10 amended: create and start are one call; a notifier whose handle was
\* returned is already listening, and no callback is invoked for a
\* notifier before its create call.
C10_CreateStartsListening ==
    \A n \in Notifiers :
        /\ handle[n] = "live" => started[n]
        /\ handle[n] \in {"none", "error"} =>
              /\ ~started[n]
              /\ startLog[n] = <<>> /\ admitLog[n] = <<>> /\ enqLog[n] = <<>>

\* a notifier that received a callback with no start call by the caller
C10_Witness ==
    \E n \in Notifiers :
        /\ handle[n] = "live"
        /\ started[n]
        /\ admitLog[n] # <<>>

\* C11: a configuration or marshalling error during creation is reported
\* through the creation call's error result, not the lifecycle callback:
\* no handle is returned, no notifier is left listening and no callback is
\* invoked for it.
C11_CreateErrorIsSynchronous ==
    /\ [](\A n \in Notifiers :
            handle[n] = "error" =>
                /\ ~started[n]
                /\ m_managed_instance[n] = NoToken
                /\ work_queue[n] = <<>> /\ rc_pc[n] = "idle"
                /\ startLog[n] = <<>> /\ admitLog[n] = <<>> /\ enqLog[n] = <<>>
                /\ \A h \in 1..Len(notifications) :
                      notifications[h].notifier # n)
    /\ [][\A n \in Notifiers :
            handle[n] = "error" => handle'[n] = "error"]_vars

\* a failed create beside a notifier that is receiving callbacks
C11_Witness ==
    \E n, m \in Notifiers :
        /\ handle[n] = "error"
        /\ handle[m] = "live"
        /\ admitLog[m] # <<>>
        /\ startLog[m] # <<>>

\* C12: an error before the first sync that is no system error always
\* terminates the process: it is neither dropped with the notifier still
\* running nor reported through the lifecycle callback.
C12_UnhandledTypeIsFatal ==
    /\ [](unhandledRaised => terminated # Running)
    /\ [][(unhandledRaised' /\ ~unhandledRaised)
              => (terminated' # Running /\ startLog' = startLog)]_vars

\* the process terminated on an exception type error() does not handle,
\* after the notifier had reported a system error
C12_Witness ==
    /\ terminated = "Unhandled GlobalNotifier exception type"
    /\ unhandledRaised
    /\ \E n \in Notifiers : ~m_did_download[n] /\ startLog[n] # <<>>

\* a sequence is strictly ascending, hence free of duplicates
StrictlyAscending(v) == \A k \in 1..(Len(v) - 1) : v[k] < v[k + 1]

\* the elements of a sequence
Elements(v) == {v[k] : k \in 1..Len(v)}

\* C13: flattening an IndexDiff yields exactly the distinct positions of
\* the set in strictly ascending order; positions 2,5,5,7 give 2,5,7.
C13_FlattenAscendingDistinct ==
    /\ StrictlyAscending(ReadIndexes(flat))
    /\ Elements(ReadIndexes(flat)) = Elements(positions)
    /\ Len(ReadIndexes(flat)) = Cardinality(Elements(positions))
    /\ positions = <<2, 5, 5, 7>> => ReadIndexes(flat) = <<2, 5, 7>>
    /\ indexes = IndexSetOf(positions)

\* the set built from 2,5,5,7 was flattened to 2,5,7
C13_Witness ==
    /\ positions = <<2, 5, 5, 7>>
    /\ ReadIndexes(flat) = <<2, 5, 7>>
    /\ Len(indexes) = 3

\* the start of SpecDiff is a state of the bridge
DiffStartReached == \E first \in BOOLEAN : DiffStart(first)

\* the consumer reads v: the positions of S in ascending order
ReadsAscending(m, S) ==
    /\ StrictlyAscending(ReadIndexes(m))
    /\ Elements(ReadIndexes(m)) = S

\* positions (from 0) of the rows of a snapshot whose identity the other
\* snapshot does not have
OnlyIn(rows, other) ==
    {p - 1 : p \in {x \in 1..Len(rows) :
                       \A q \in 1..Len(other) : other[q].id # rows[x].id}}

\* positions (from 0) of the rows of a snapshot that the other snapshot has
\* with a different content
ChangedIn(rows, other) ==
    {p - 1 : p \in {x \in 1..Len(rows) :
                       \E q \in 1..Len(other) :
                           /\ other[q].id = rows[x].id
                           /\ other[q].content # rows[x].content}}

\* the identities of the rows at the positions a field names
IdsAt(rows, m) == {rows[ReadIndexes(m)[k] + 1].id : k \in 1..m.count}

\* the entries of an envelope for a collection
EntriesOf(env, c) == {k \in 1..Len(env.changesets) : env.changesets[k].name = c}

\* the rows 1..k of a snapshot named in IdOrder
Named(ids) == [p \in 1..Len(ids) |-> [id |-> ids[p], content |-> 1]]

\* C14: the delivered changeset of a collection has as deletions the
\* previous positions of the rows only in previous, as insertions the
\* current positions of the rows only in current, as modifications the
\* rows in both with changed content, at their previous and at their
\* current positions; a collection in only one snapshot gives insertions
\* only or deletions only; previous A,B,C and current A,C,D give deletions
\* 1, insertions 2 and no modifications.
C14_ThreeWayDifference ==
    \A e \in 1..Len(completeLog) : \A c \in Collections :
        LET env == completeLog[e]
            before == OldTables(env.handle)[c]
            after == snapshots.current[c]
        IN
        /\ Cardinality(EntriesOf(env, c)) =
               IF before.there \/ after.there THEN 1 ELSE 0
        /\ \A k \in EntriesOf(env, c) :
              LET cs == env.changesets[k] IN
              /\ ReadsAscending(cs.deletions, OnlyIn(before.rows, after.rows))
              /\ ReadsAscending(cs.insertions, OnlyIn(after.rows, before.rows))
              /\ ReadsAscending(cs.previous_modifications,
                                ChangedIn(before.rows, after.rows))
              /\ ReadsAscending(cs.current_modifications,
                                ChangedIn(after.rows, before.rows))
              /\ IdsAt(before.rows, cs.previous_modifications)
                     = IdsAt(after.rows, cs.current_modifications)
              /\ ~before.there =>
                    /\ ReadIndexes(cs.insertions) =
                           [p \in 1..Len(after.rows) |-> p - 1]
                    /\ cs.deletions.count = 0
                    /\ cs.previous_modifications.count = 0
                    /\ cs.current_modifications.count = 0
              /\ ~after.there =>
                    /\ ReadIndexes(cs.deletions) =
                           [p \in 1..Len(before.rows) |-> p - 1]
                    /\ cs.insertions.count = 0
                    /\ cs.previous_modifications.count = 0
                    /\ cs.current_modifications.count = 0
              /\ (/\ before = Table(Named(<<"A", "B", "C">>))
                  /\ after = Table(Named(<<"A", "C", "D">>))) =>
                    /\ ReadIndexes(cs.deletions) = <<1>>
                    /\ ReadIndexes(cs.insertions) = <<2>>
                    /\ cs.previous_modifications.count = 0
                    /\ cs.current_modifications.count = 0

\* the changes of A,B,C to A,C,D were delivered, beside a collection that
\* was deleted
C14_Witness ==
    \E e \in 1..Len(completeLog) :
        LET env == completeLog[e] IN
        /\ OldTables(env.handle)["Dog"] = Table(Named(<<"A", "B", "C">>))
        /\ snapshots.current["Dog"] = Table(Named(<<"A", "C", "D">>))
        /\ OldTables(env.handle)["Cat"].there /\ ~snapshots.current["Cat"].there
        /\ env.changesets_count = 2
        /\ ReadIndexes(env.changesets[2].deletions) = <<1>>
        /\ ReadIndexes(env.changesets[2].insertions) = <<2>>
        /\ ReadIndexes(env.changesets[1].deletions) = <<0>>

\* what a snapshot handle of an envelope refers to
RealmOf(r) == IF r = NullHandle THEN None ELSE realms[r]

\* C15: two requests for the changes of the same notification deliver
\* identical changesets, and a request leaves the path and the snapshots
\* of the notification as they were.
C15_RequestIsIdempotent ==
    /\ [](\A e, f \in 1..Len(completeLog) :
            completeLog[e].handle = completeLog[f].handle =>
                /\ completeLog[e].changesets = completeLog[f].changesets
                /\ completeLog[e].changesets_count = completeLog[f].changesets_count
                /\ completeLog[e].path = completeLog[f].path
                /\ completeLog[e].path_on_disk = completeLog[f].path_on_disk
                /\ RealmOf(completeLog[e].previous) = RealmOf(completeLog[f].previous)
                /\ RealmOf(completeLog[e].current) = RealmOf(completeLog[f].current))
    /\ [][/\ snapshots' = snapshots
          /\ \A h \in 1..Len(notifications) :
                /\ notifications'[h].realm_path = notifications[h].realm_path
                /\ notifications'[h].old = notifications[h].old
                /\ notifications'[h].new = notifications[h].new]_vars

\* the changes of a notification with a previous snapshot were delivered
\* twice, to two consumer tokens, and are not empty
C15_Witness ==
    \E e, f \in 1..Len(completeLog) :
        /\ e # f
        /\ completeLog[e].handle = completeLog[f].handle
        /\ completeLog[e].token # completeLog[f].token
        /\ completeLog[e].previous # NullHandle
        /\ completeLog[e].changesets_count = 2
        /\ completeLog[e].changesets[2].deletions.count > 0
        /\ completeLog[e].changesets[2].current_modifications.count > 0

\* what has left the ready queue of a notifier and what is in it, as
\* (store, version) pairs in their order
Popped(n) ==
    [i \in 1..Len(enqLog[n]) |-> <<Handed(n, i).realm_path, Handed(n, i).new>>]

Pending(n) ==
    [i \in 1..Len(work_queue[n]) |->
        <<work_queue[n][i].realm_path, work_queue[n][i].new>>]

\* C16: with the detection worker pushing while realm_changed drains,
\* every pushed notification is popped exactly once: what was popped
\* followed by what is queued holds each pushed notification once, and a
\* queued notification is popped by the drain of a later signal.
C16_SingleProducerSingleConsumer ==
    /\ [](\A n \in Notifiers :
            LET all == Popped(n) \o Pending(n) IN
            /\ Len(all) = SumOver(version[n], Stores)
            /\ \A s \in Stores : \A v \in 1..version[n][s] :
                  \E i \in 1..Len(all) : all[i] = <<s, v>>)
    /\ \A n \in Notifiers :
          (work_queue[n] # <<>>) ~> (work_queue[n] = <<>> /\ rc_pc[n] = "idle")
    /\ \A n \in Notifiers : \A s \in Stores : \A v \in 1..MaxEvents :
          (InQueue(n, s, v) = 1) ~> (InEnqueued(n, s, v) = 1)

\* a notification was pushed while realm_changed was draining and popped by
\* that drain: its signal is still pending after the drain came to its end
C16_Witness ==
    \E n \in Notifiers :
        /\ signal[n]
        /\ rc_pc[n] = "idle"
        /\ work_queue[n] = <<>>
        /\ Len(enqLog[n]) >= 2

\* the last invocation of s_calculation_complete_callback after a step
Delivered == completeLog'[Len(completeLog')]

\* C17: a successful request for a notification handle invokes
\* calculation-complete exactly once, with the consumer token of the
\* request and an envelope of the notification's path whose entries are,
\* one for one, the collections of the computed changes, each with the
\* deletions, insertions and the modifications in previous and in current
\* coordinates of that collection in the fields of those names; a request
\* ending in an error invokes it not at all.
C17_OneDeliveryPerRequest ==
    [][\A h \in 1..Len(notifications), k \in ConsumerTokens :
          realm_server_global_notifier_notification_get_changes(h, k) =>
              IF snapshots.fault = "none"
              THEN /\ Len(completeLog') = Len(completeLog) + 1
                   /\ SubSeq(completeLog', 1, Len(completeLog)) = completeLog
                   /\ errorResults' = errorResults
                   /\ Delivered.token = k
                   /\ Delivered.handle = h
                   /\ Delivered.path = notifications[h].realm_path
                   /\ Delivered.changesets_count = Len(get_changes(h))
                   /\ Len(Delivered.changesets) = Len(get_changes(h))
                   /\ \A i \in 1..Len(get_changes(h)) :
                         LET entry == Delivered.changesets[i]
                             computed == get_changes(h)[i].second
                         IN
                         /\ entry.name = get_changes(h)[i].first
                         /\ ReadIndexes(entry.deletions)
                                = get_indexes_vector(computed.deletions)
                         /\ ReadIndexes(entry.insertions)
                                = get_indexes_vector(computed.insertions)
                         /\ ReadIndexes(entry.previous_modifications)
                                = get_indexes_vector(computed.modifications)
                         /\ ReadIndexes(entry.current_modifications)
                                = get_indexes_vector(computed.modifications_new)
              ELSE /\ completeLog' = completeLog
                   /\ Len(errorResults') = Len(errorResults) + 1]_vars

\* two collections were delivered to the second consumer token, one with a
\* modified row that is at another position in the current snapshot
C17_Witness ==
    \E e \in 1..Len(completeLog) :
        /\ completeLog[e].token # (CHOOSE k \in ConsumerTokens : TRUE)
        /\ completeLog[e].changesets_count = 2
        /\ completeLog[e].changesets[2].previous_modifications.count = 1
        /\ ReadIndexes(completeLog[e].changesets[2].previous_modifications)
               # ReadIndexes(completeLog[e].changesets[2].current_modifications)

\* the requests made for the changes of a notification handle
RequestsFor(h) ==
    Cardinality({e \in 1..Len(completeLog) : completeLog[e].handle = h})
        + Cardinality({e \in 1..Len(errorResults) : errorResults[e].handle = h})

\* C18: the changes of a notification are computed as often as the
\* consumer requested them for that handle, and not before: a commit and
\* the handing of its notification to enqueue-for-calculation compute
\* nothing.
C18_ComputedOnRequestOnly ==
    /\ [](\A h \in 1..Len(notifications) :
            notifications[h].computed = RequestsFor(h))
    /\ [][/\ \A h \in 1..Len(notifications) :
                notifications'[h].computed # notifications[h].computed =>
                    \E k \in ConsumerTokens :
                        realm_server_global_notifier_notification_get_changes(h, k)
          /\ \A h \in (Len(notifications) + 1)..Len(notifications') :
                notifications'[h].computed = 0
          /\ (version' # version \/ enqLog' = enqLog)
                => Len(notifications') = Len(notifications)]_vars

\* a notification is handed over and not requested, next to one that was
\* requested twice
C18_Witness ==
    \E g, h \in 1..Len(notifications) :
        /\ notifications[g].computed = 0
        /\ notifications[h].computed = 2
        /\ \E n \in Notifiers : \E i \in 1..Len(enqLog[n]) : enqLog[n][i].handle = g

\* C19: every snapshot handle allocated by a request is handed to the
\* consumer through calculation-complete; a request that ends with an
\* error result leaves no snapshot handle owned by nobody.
C19_NoOrphanSnapshotHandle ==
    \A r \in 1..Len(realms) :
        \E e \in 1..Len(completeLog) :
            completeLog[e].previous = r \/ completeLog[e].current = r

\* the managed-instance tokens the callbacks of a notifier were invoked
\* with
TokensSeen(n) ==
    {startLog[n][i].inst : i \in 1..Len(startLog[n])}
        \cup {admitLog[n][i].inst : i \in 1..Len(admitLog[n])}
        \cup {enqLog[n][i].inst : i \in 1..Len(enqLog[n])}

\* C20: every lifecycle, admission and enqueue callback caused by an event
\* of a notifier carries the managed-instance token given when that
\* notifier was created, never the token of another notifier, and the path
\* argument of an enqueue callback is the logical path of the notification
\* handle passed with it.
C20_TokenOfOwnNotifier ==
    /\ [](\A n \in Notifiers :
            /\ TokensSeen(n) \subseteq {m_managed_instance[n]} \ {NoToken}
            /\ \A m \in Notifiers \ {n} :
                  m_managed_instance[m] \notin TokensSeen(n)
            /\ \A i \in 1..Len(enqLog[n]) :
                  /\ enqLog[n][i].path = notifications[enqLog[n][i].handle].realm_path
                  /\ notifications[enqLog[n][i].handle].notifier = n)
    /\ [][\A n \in Notifiers :
            /\ \A t \in Tokens :
                  realm_server_create_global_notifier(n, t, TRUE)
                      => m_managed_instance'[n] = t
            /\ m_managed_instance[n] # NoToken
                  => m_managed_instance'[n] = m_managed_instance[n]]_vars

\* two notifiers are alive, created with different tokens, and callbacks
\* of each were invoked, an enqueue callback among them
C20_Witness ==
    \E n, m \in Notifiers :
        /\ n # m
        /\ handle[n] = "live" /\ handle[m] = "live"
        /\ enqLog[n] # <<>>
        /\ TokensSeen(m) # {}
        /\ TokensSeen(n) # TokensSeen(m)

====
